---- MODULE Spec2Model ----
(***************************************************************************)
(* AddressBook (src/backend/book.py): a contact store over three SQLite    *)
(* tables (contacts, phones, birthdays) with input/output validation.      *)
(* Text is a sequence of one-character strings, so that formatting and     *)
(* parsing are real conversions.  A table is a bag of rows: SELECT without *)
(* ORDER BY fixes no order, and a bag can hold the same row twice.         *)
(***************************************************************************)
EXTENDS Integers, Sequences, FiniteSets, Bags, TLC

VARIABLES contacts, phones, birthdays, ret, libc_pads_year

vars == <<contacts, phones, birthdays, ret, libc_pads_year>>
store == <<contacts, phones, birthdays>>

\* ------------------------------------------------------------------------
\* Characters and text
\* ------------------------------------------------------------------------

Digits == <<"0", "1", "2", "3", "4", "5", "6", "7", "8", "9">>

IsDigit(c) == \E i \in 1..Len(Digits) : Digits[i] = c

DigitVal(c) == (CHOOSE i \in 1..Len(Digits) : Digits[i] = c) - 1

\* Code point of the characters the inputs are made of.
ord(c) ==
    CASE c = " " -> 32
      [] c = "-" -> 45
      [] c = "." -> 46
      [] IsDigit(c) -> 48 + DigitVal(c)
      [] c = "@" -> 64
      [] c = "A" -> 65
      [] c = "B" -> 66
      [] c = "Z" -> 90
      [] c = "[" -> 91
      [] c = "^" -> 94
      [] c = "_" -> 95
      [] c = "a" -> 97
      [] c = "b" -> 98
      [] c = "c" -> 99
      [] c = "d" -> 100
      [] c = "e" -> 101
      [] c = "l" -> 108
      [] c = "o" -> 111
      [] c = "z" -> 122
      [] c = "{" -> 123

AllDigits(s) == \A i \in 1..Len(s) : IsDigit(s[i])

RECURSIVE NumVal(_)
NumVal(s) == IF s = <<>> THEN 0
             ELSE 10 * NumVal(SubSeq(s, 1, Len(s) - 1)) + DigitVal(s[Len(s)])

RECURSIVE Decimal(_)
Decimal(n) == IF n < 10 THEN <<Digits[n + 1]>>
              ELSE Decimal(n \div 10) \o <<Digits[(n % 10) + 1]>>

RECURSIVE ZeroPad(_, _)
ZeroPad(s, width) == IF Len(s) >= width THEN s ELSE ZeroPad(<<"0">> \o s, width)

\* The parts of s between the occurrences of sep.
RECURSIVE Split(_, _)
Split(s, sep) ==
    IF \A i \in 1..Len(s) : s[i] # sep THEN <<s>>
    ELSE LET k == CHOOSE i \in 1..Len(s) :
                      s[i] = sep /\ \A j \in 1..(i - 1) : s[j] # sep
         IN <<SubSeq(s, 1, k - 1)>> \o Split(SubSeq(s, k + 1, Len(s)), sep)

\* ------------------------------------------------------------------------
\* Calendar
\* ------------------------------------------------------------------------

NoDate == [y |-> 0, m |-> 0, d |-> 0]

IsLeap(y) == (y % 4 = 0 /\ y % 100 # 0) \/ y % 400 = 0

DaysInMonth(y, m) ==
    IF m = 2 THEN (IF IsLeap(y) THEN 29 ELSE 28)
    ELSE IF m \in {4, 6, 9, 11} THEN 30 ELSE 31

\* datetime.date(y, m, d) succeeds.
IsCalendarDate(y, m, d) ==
    /\ y \in 1..9999
    /\ m \in 1..12
    /\ d \in 1..DaysInMonth(y, m)

NextDay(dt) ==
    IF dt.d < DaysInMonth(dt.y, dt.m) THEN [dt EXCEPT !.d = dt.d + 1]
    ELSE IF dt.m < 12 THEN [dt EXCEPT !.m = dt.m + 1, !.d = 1]
    ELSE [y |-> dt.y + 1, m |-> 1, d |-> 1]

RECURSIVE AddDays(_, _)
AddDays(dt, n) == IF n = 0 THEN dt ELSE AddDays(NextDay(dt), n - 1)

\* Lexicographic comparison of two texts, as SQLite compares TEXT values.
RECURSIVE TextLeq(_, _)
TextLeq(a, b) ==
    IF a = <<>> THEN TRUE
    ELSE IF b = <<>> THEN FALSE
    ELSE IF ord(Head(a)) # ord(Head(b)) THEN ord(Head(a)) < ord(Head(b))
    ELSE TextLeq(Tail(a), Tail(b))

\* ------------------------------------------------------------------------
\* Bags of rows
\* ------------------------------------------------------------------------

BagWhere(B, P(_)) == [r \in {x \in DOMAIN B : P(x)} |-> B[r]]

RECURSIVE SumCopies(_, _)
SumCopies(B, S) ==
    IF S = {} THEN 0
    ELSE LET x == CHOOSE e \in S : TRUE IN B[x] + SumCopies(B, S \ {x})

\* The bag of F(r) for the rows r of B, copies kept.
BagImage(B, F(_)) ==
    [x \in {F(r) : r \in DOMAIN B} |->
        SumCopies(B, {r \in DOMAIN B : F(r) = x})]

\* ------------------------------------------------------------------------
\* Program constants
\* ------------------------------------------------------------------------

NameMinLen == 2
NameMaxLen == 32
PhoneLen == 10
WeekDays == 7

\* ------------------------------------------------------------------------
\* datetime.strptime / strftime for the two formats the code uses
\* ------------------------------------------------------------------------

\* %d : 3[0-1] | [1-2]\d | 0[1-9] | [1-9] | " "[1-9]
match_d(s) ==
    IF Len(s) = 1 /\ IsDigit(s[1]) /\ s[1] # "0" THEN DigitVal(s[1])
    ELSE IF Len(s) = 2 /\ s[1] = " " /\ IsDigit(s[2]) /\ s[2] # "0"
         THEN DigitVal(s[2])
    ELSE IF Len(s) = 2 /\ AllDigits(s) /\ NumVal(s) \in 1..31 THEN NumVal(s)
    ELSE 0

\* %m : 1[0-2] | 0[1-9] | [1-9]
match_m(s) ==
    IF Len(s) = 1 /\ IsDigit(s[1]) /\ s[1] # "0" THEN DigitVal(s[1])
    ELSE IF Len(s) = 2 /\ AllDigits(s) /\ NumVal(s) \in 1..12 THEN NumVal(s)
    ELSE 0

\* %Y : \d\d\d\d ; -1 when the text does not match
match_Y(s) == IF Len(s) = 4 /\ AllDigits(s) THEN NumVal(s) ELSE -1

\* strptime(text, fmt).date() for a format of three fields joined by sep:
\* the fields are (day, month, year) when dayFirst, else (year, month, day).
\* NoDate stands for the ValueError of a mismatch or an impossible date.
strptime(text, sep, dayFirst) ==
    LET parts == Split(text, sep) IN
    IF Len(parts) # 3 THEN NoDate
    ELSE LET d == match_d(IF dayFirst THEN parts[1] ELSE parts[3])
             m == match_m(parts[2])
             y == match_Y(IF dayFirst THEN parts[3] ELSE parts[1])
         IN IF d # 0 /\ m # 0 /\ y # -1 /\ IsCalendarDate(y, m, d)
            THEN [y |-> y, m |-> m, d |-> d]
            ELSE NoDate

\* %Y of strftime: the C library decides whether a year below 1000 is
\* padded to four digits (glibc does not pad).
strftime_Y(y) == IF libc_pads_year THEN ZeroPad(Decimal(y), 4) ELSE Decimal(y)

strftime_Ymd(dt) ==
    strftime_Y(dt.y) \o <<"-">> \o ZeroPad(Decimal(dt.m), 2)
        \o <<"-">> \o ZeroPad(Decimal(dt.d), 2)

strftime_dmY(dt) ==
    ZeroPad(Decimal(dt.d), 2) \o <<".">> \o ZeroPad(Decimal(dt.m), 2)
        \o <<".">> \o strftime_Y(dt.y)

\* ------------------------------------------------------------------------
\* Validation: [raised, value, msg]
\* ------------------------------------------------------------------------

Valid(v) == [raised |-> FALSE, value |-> v, msg |-> ""]
Invalid(m) == [raised |-> TRUE, value |-> <<>>, msg |-> m]

\* re.fullmatch(r'[A-z]{2,32}', name): the class is the code-point range
\* from 'A' to 'z'.
validate_input_name(name) ==
    IF /\ Len(name) \in NameMinLen..NameMaxLen
       /\ \A i \in 1..Len(name) :
              ord("A") <= ord(name[i]) /\ ord(name[i]) <= ord("z")
    THEN Valid(name)
    ELSE Invalid("Name can consist of letters A-z only.")

\* re.fullmatch(r'[0-9]{10}', phone)
validate_input_phone(phone) ==
    IF Len(phone) = PhoneLen /\ AllDigits(phone)
    THEN Valid(phone)
    ELSE Invalid("Phone must consist of 10 digits, example 0971122333")

validate_input_birthday(birthday) ==
    LET birthday_date == strptime(birthday, ".", TRUE) IN
    IF birthday_date = NoDate
    THEN Invalid("Input date must be in format dd.mm.yyyy, example: 31.12.2024")
    ELSE Valid(strftime_Ymd(birthday_date))

validate_output_birthday(birthday) ==
    LET birthday_date == strptime(birthday, "-", FALSE) IN
    IF birthday_date = NoDate
    THEN Invalid("Database date must be in format yyyy-mm-dd, example: 2024-12-31")
    ELSE Valid(strftime_dmY(birthday_date))

\* ------------------------------------------------------------------------
\* Tables and statements
\* ------------------------------------------------------------------------

ContactRow(name) == name
PhoneRow(name, phone) == [contact_name |-> name, phone |-> phone]
BirthdayRow(name, birthday) == [contact_name |-> name, birthday |-> birthday]

\* phones carries UNIQUE(contact_name, phone): the key of a row.
phones_unique_key(r) == <<r.contact_name, r.phone>>

is_contact_present(tbl, name) == ContactRow(name) \in tbl

\* The phone left out of the WHERE clause.
is_phone_present_any(tbl, name, phone) ==
    \E r \in DOMAIN tbl : r.contact_name = name

is_phone_present(tbl, name, phone) ==
    \E r \in DOMAIN tbl : r.contact_name = name /\ r.phone = phone

is_birthday_present(tbl, name) ==
    \E r \in DOMAIN tbl : r.contact_name = name

\* The upsert of the contact left out.
insert_or_update_contact_skipped(tbl, name) == tbl

\* INSERT ... ON CONFLICT(contact_name) DO UPDATE SET contact_name = same
insert_or_update_contact(tbl, name) == tbl \cup {ContactRow(name)}

\* INSERT ... ON CONFLICT(contact_name) DO UPDATE SET birthday = new:
\* the rows of the name take the new birthday, else a row is added.
insert_or_update_birthday(tbl, name, birthday) ==
    IF \E r \in DOMAIN tbl : r.contact_name = name
    THEN BagImage(tbl, LAMBDA r : IF r.contact_name = name
                                  THEN BirthdayRow(name, birthday) ELSE r)
    ELSE tbl (+) SetToBag({BirthdayRow(name, birthday)})

\* A plain INSERT, nothing replaced.
insert_or_replace_phone_plain(tbl, name, phone) ==
    tbl (+) SetToBag({PhoneRow(name, phone)})

\* INSERT OR REPLACE: the rows with the key of the new row are deleted,
\* then the new row is inserted.
insert_or_replace_phone(tbl, name, phone) ==
    BagWhere(tbl, LAMBDA r : phones_unique_key(r)
                                 # phones_unique_key(PhoneRow(name, phone)))
        (+) SetToBag({PhoneRow(name, phone)})

\* UPDATE phones SET phone = new WHERE contact_name = name AND phone = old.
\* The statement fails, and changes nothing, when a row it wrote shares its
\* key with another row.
update_phone(tbl, name, phone, new_phone) ==
    LET updated == BagImage(tbl, LAMBDA r :
                       IF r.contact_name = name /\ r.phone = phone
                       THEN PhoneRow(name, new_phone) ELSE r)
        hit == \E r \in DOMAIN tbl : r.contact_name = name /\ r.phone = phone
        same_key == {r \in DOMAIN updated :
                        phones_unique_key(r)
                            = phones_unique_key(PhoneRow(name, new_phone))}
        conflict == hit /\ SumCopies(updated, same_key) > 1
    IN IF conflict THEN [raised |-> TRUE, table |-> tbl]
       ELSE [raised |-> FALSE, table |-> updated]

select_birthday(tbl, name) ==
    (CHOOSE r \in DOMAIN tbl : r.contact_name = name).birthday

select_contact_phones(tbl, name) ==
    BagWhere(tbl, LAMBDA r : r.contact_name = name)

select_all_phones(tbl) == tbl

\* SQLite reads a date text as YYYY-MM-DD with a month in 1..12 and a day in
\* 1..31; any other text is NULL (NoDate).
sqlite_date(text) ==
    LET parts == Split(text, "-") IN
    IF /\ Len(parts) = 3
       /\ Len(parts[1]) = 4 /\ AllDigits(parts[1])
       /\ Len(parts[2]) = 2 /\ AllDigits(parts[2]) /\ NumVal(parts[2]) \in 1..12
       /\ Len(parts[3]) = 2 /\ AllDigits(parts[3]) /\ NumVal(parts[3]) \in 1..31
    THEN [y |-> NumVal(parts[1]), m |-> NumVal(parts[2]), d |-> NumVal(parts[3])]
    ELSE NoDate

\* DATE(...) prints year-month-day with four, two and two digits.
sqlite_text(dt) ==
    ZeroPad(Decimal(dt.y), 4) \o <<"-">> \o ZeroPad(Decimal(dt.m), 2)
        \o <<"-">> \o ZeroPad(Decimal(dt.d), 2)

\* DATE(STRFTIME('%Y', DATE('NOW')) || STRFTIME('-%m-%d', birthday)): the
\* month and day of the stored text after the current year.  DATE without a
\* modifier returns the year, month and day it read, so 29 February stays
\* 29 February in a year that has none.  <<>> is NULL.
birthday_this_year(birthday, today) ==
    LET stored == sqlite_date(birthday) IN
    IF stored = NoDate THEN <<>>
    ELSE LET text == ZeroPad(Decimal(today.y), 4) \o <<"-">>
                         \o ZeroPad(Decimal(stored.m), 2) \o <<"-">>
                         \o ZeroPad(Decimal(stored.d), 2)
         IN IF sqlite_date(text) = NoDate THEN <<>>
            ELSE sqlite_text(sqlite_date(text))

\* WHERE birthday_this_year >= DATE('NOW')
\*   AND birthday_this_year <= DATE('NOW', '+7 days'), on texts.
in_next_week(bty, today) ==
    /\ bty # <<>>
    /\ TextLeq(sqlite_text(today), bty)
    /\ TextLeq(bty, sqlite_text(AddDays(today, WeekDays)))

select_birthdays_next_week(tbl, today) ==
    BagImage(
        BagWhere(tbl, LAMBDA r :
            in_next_week(birthday_this_year(r.birthday, today), today)),
        LAMBDA r : [contact_name |-> r.contact_name,
                    birthday_this_year |->
                        birthday_this_year(r.birthday, today)])

\* ------------------------------------------------------------------------
\* Operations.  ret is what the last call gave its caller: the operation,
\* the exception it raised ("None" when it returned), the text of the
\* message or report and the values formatted into it.  A call that passed
\* validation is kept with its arguments (for showBirthdaysNextWeek, the
\* date it read from the clock); a validation error carries its message only.
\* ------------------------------------------------------------------------

Line(name, value) == [contact_name |-> name, value |-> value]

NoArgs == [name |-> <<>>, phone |-> <<>>, new_phone |-> <<>>,
           birthday |-> <<>>, today |-> NoDate]

Return(op, args, msg, lines) ==
    [op |-> op, args |-> args, exc |-> "None", msg |-> msg, lines |-> lines]

Raise(op, args, exc, msg) ==
    [op |-> op, args |-> args, exc |-> exc, msg |-> msg, lines |-> EmptyBag]

add_birthday(name, birthday) ==
    LET v_name == validate_input_name(name)
        v_birthday == validate_input_birthday(birthday)
        args == [NoArgs EXCEPT !.name = name, !.birthday = birthday]
    IN /\ UNCHANGED <<phones, libc_pads_year>>
       /\ IF v_name.raised
          THEN /\ ret' = Raise("add_birthday", NoArgs, "ValueError", v_name.msg)
               /\ UNCHANGED <<contacts, birthdays>>
          ELSE IF v_birthday.raised
          THEN /\ ret' = Raise("add_birthday", NoArgs, "ValueError",
                               v_birthday.msg)
               /\ UNCHANGED <<contacts, birthdays>>
          ELSE /\ contacts' = insert_or_update_contact(contacts, v_name.value)
               /\ birthdays' = insert_or_update_birthday(
                                   birthdays, v_name.value, v_birthday.value)
               /\ ret' = Return("add_birthday", args, "Birthday: added.",
                                EmptyBag)

add_phone(name, phone) ==
    LET v_name == validate_input_name(name)
        v_phone == validate_input_phone(phone)
        args == [NoArgs EXCEPT !.name = name, !.phone = phone]
    IN /\ UNCHANGED <<birthdays, libc_pads_year>>
       /\ IF v_name.raised
          THEN /\ ret' = Raise("add_phone", NoArgs, "ValueError", v_name.msg)
               /\ UNCHANGED <<contacts, phones>>
          ELSE IF v_phone.raised
          THEN /\ ret' = Raise("add_phone", NoArgs, "ValueError", v_phone.msg)
               /\ UNCHANGED <<contacts, phones>>
          ELSE /\ contacts' = insert_or_update_contact(contacts, v_name.value)
               /\ phones' = insert_or_replace_phone(
                                phones, v_name.value, v_phone.value)
               /\ ret' = Return("add_phone", args, "Phone: added.", EmptyBag)

edit_phone(name, phone, new_phone) ==
    LET v_name == validate_input_name(name)
        v_phone == validate_input_phone(phone)
        v_new_phone == validate_input_phone(new_phone)
        args == [NoArgs EXCEPT !.name = name, !.phone = phone,
                               !.new_phone = new_phone]
        upd == update_phone(phones, name, phone, new_phone)
    IN /\ UNCHANGED <<contacts, birthdays, libc_pads_year>>
       /\ IF v_name.raised
          THEN /\ ret' = Raise("edit_phone", NoArgs, "ValueError", v_name.msg)
               /\ UNCHANGED phones
          ELSE IF v_phone.raised
          THEN /\ ret' = Raise("edit_phone", NoArgs, "ValueError", v_phone.msg)
               /\ UNCHANGED phones
          ELSE IF v_new_phone.raised
          THEN /\ ret' = Raise("edit_phone", NoArgs, "ValueError",
                               v_new_phone.msg)
               /\ UNCHANGED phones
          ELSE IF ~is_contact_present(contacts, name)
          THEN /\ ret' = Return("edit_phone", args,
                     "Contact {name} is absent in address book and can not be edited.",
                     SetToBag({Line(name, <<>>)}))
               /\ UNCHANGED phones
          ELSE IF ~is_phone_present(phones, name, phone)
          THEN /\ ret' = Return("edit_phone", args,
                     "Phone {phone} is absent in contact {name} and can not be edited.",
                     SetToBag({Line(name, phone)}))
               /\ UNCHANGED phones
          ELSE IF upd.raised
          THEN /\ ret' = Raise("edit_phone", args, "IntegrityError",
                     "UNIQUE constraint failed: phones.contact_name, phones.phone")
               /\ UNCHANGED phones
          ELSE /\ phones' = upd.table
               /\ ret' = Return("edit_phone", args, "Phone: updated.", EmptyBag)

\* What show_birthday(name) gives on the tables ctbl and btbl.
show_birthday_ret(ctbl, btbl, name) ==
    LET v_name == validate_input_name(name)
        args == [NoArgs EXCEPT !.name = name]
    IN IF v_name.raised
       THEN Raise("show_birthday", NoArgs, "ValueError", v_name.msg)
       ELSE IF ~is_contact_present(ctbl, name)
       THEN Return("show_birthday", args,
                "Contact {name} is absent in address book, birthday can not be displayed.",
                SetToBag({Line(name, <<>>)}))
       ELSE IF ~is_birthday_present(btbl, name)
       THEN Return("show_birthday", args,
                "Contact: {name}, Birthday: not entered yet.",
                SetToBag({Line(name, <<>>)}))
       ELSE LET birthday ==
                    validate_output_birthday(select_birthday(btbl, name))
            IN IF birthday.raised
               THEN Raise("show_birthday", args, "ValueError", birthday.msg)
               ELSE Return("show_birthday", args,
                        "Contact: {name}, Birthday: {birthday}",
                        SetToBag({Line(name, birthday.value)}))

show_birthday(name) ==
    /\ ret' = show_birthday_ret(contacts, birthdays, name)
    /\ UNCHANGED <<contacts, phones, birthdays, libc_pads_year>>

show_birthdays_next_week(today) ==
    LET congrats_next_week == select_birthdays_next_week(birthdays, today)
        args == [NoArgs EXCEPT !.today = today]
    IN /\ ret' =
            IF BagCardinality(congrats_next_week) = 0
            THEN Return("show_birthdays_next_week", args,
                     "There are no birthdays next week.", EmptyBag)
            ELSE IF \E cnw \in DOMAIN congrats_next_week :
                        validate_output_birthday(cnw.birthday_this_year).raised
            THEN Raise("show_birthdays_next_week", args, "ValueError",
                     "Database date must be in format yyyy-mm-dd, example: 2024-12-31")
            ELSE Return("show_birthdays_next_week", args,
                     "Birthdays next week: ",
                     BagImage(congrats_next_week, LAMBDA cnw :
                         Line(cnw.contact_name,
                              validate_output_birthday(
                                  cnw.birthday_this_year).value)))
       /\ UNCHANGED <<contacts, phones, birthdays, libc_pads_year>>

\* What show_phones(name) gives on the tables ctbl and ptbl.
show_phones_ret(ctbl, ptbl, name) ==
    LET v_name == validate_input_name(name)
        args == [NoArgs EXCEPT !.name = name]
        contact_phones == select_contact_phones(ptbl, name)
    IN IF v_name.raised
       THEN Raise("show_phones", NoArgs, "ValueError", v_name.msg)
       ELSE IF ~is_contact_present(ctbl, name)
       THEN Return("show_phones", args,
                "Contact {name} is absent in address book, phones can not be displayed.",
                SetToBag({Line(name, <<>>)}))
       ELSE IF BagCardinality(contact_phones) = 0
       THEN Return("show_phones", args,
                "Contact: {name}, Phones: not entered yet.",
                SetToBag({Line(name, <<>>)}))
       ELSE Return("show_phones", args, "Contact phones: ",
                BagImage(contact_phones,
                         LAMBDA cp : Line(cp.contact_name, cp.phone)))

show_phones(name) ==
    /\ ret' = show_phones_ret(contacts, phones, name)
    /\ UNCHANGED <<contacts, phones, birthdays, libc_pads_year>>

show_phones_all_contacts ==
    LET all_phones == select_all_phones(phones) IN
    /\ ret' = IF BagCardinality(all_phones) = 0
              THEN Return("show_phones_all_contacts", NoArgs,
                       "Phones: not entered yet.", EmptyBag)
              ELSE Return("show_phones_all_contacts", NoArgs,
                       "All phones in address book: ",
                       BagImage(all_phones,
                                LAMBDA ap : Line(ap.contact_name, ap.phone)))
    /\ UNCHANGED <<contacts, phones, birthdays, libc_pads_year>>

\* ------------------------------------------------------------------------
\* Inputs
\* ------------------------------------------------------------------------

\* The number of well-formed phone numbers the calls draw from.
NumPhones == 2

Al == <<"A", "l">>
Bo == <<"B", "o">>
B_ == <<"B", "_">>
TooLong == [i \in 1..(NameMaxLen + 1) |-> "A"]

ValidPhone(i) == <<"0", "9", "7", "1", "1", "2", "2", "3", "3">> \o Decimal(i)

ValidPhones == {ValidPhone(i) : i \in 1..NumPhones}

TooShortPhone == <<"1", "2", "3", "4", "5">>
TooLongPhone == <<"1", "2", "3", "4", "5", "6", "7", "8", "9", "0", "1">>
NonDigitPhone == <<"1", "2", "3", "4", "5", "a", "b", "c", "d", "e">>

\* ------------------------------------------------------------------------
\* Specification: every operation
\* ------------------------------------------------------------------------

NameInputs == {Al, B_, TooLong}

PhoneInputs == ValidPhones \cup {NonDigitPhone}

BirthdayInputs ==
    {<<"3", "1", ".", "1", "2", ".", "2", "0", "2", "4">>,
     <<"0", "1", ".", "0", "1", ".", "0", "9", "9", "9">>,
     <<"3", "1", ".", "0", "2", ".", "2", "0", "2", "4">>}

TodayInputs ==
    {[y |-> 2024, m |-> 12, d |-> 29], [y |-> 2025, m |-> 6, d |-> 15]}

\* AddressBook(): the connection to a store whose tables are empty.
Init ==
    /\ contacts = {}
    /\ phones = EmptyBag
    /\ birthdays = EmptyBag
    /\ ret = Return("__init__", NoArgs, "", EmptyBag)
    /\ libc_pads_year \in BOOLEAN

Next ==
    \/ \E name \in NameInputs, birthday \in BirthdayInputs :
           add_birthday(name, birthday)
    \/ \E name \in NameInputs, phone \in PhoneInputs : add_phone(name, phone)
    \/ \E name \in NameInputs, phone \in PhoneInputs, new_phone \in PhoneInputs :
           edit_phone(name, phone, new_phone)
    \/ \E name \in NameInputs : show_birthday(name)
    \/ \E today \in TodayInputs : show_birthdays_next_week(today)
    \/ \E name \in NameInputs : show_phones(name)
    \/ show_phones_all_contacts

Spec == Init /\ [][Next]_vars

\* ------------------------------------------------------------------------
\* The phone operations alone, on names of letters
\* ------------------------------------------------------------------------

LetterNameInputs == {Al, Bo, <<"A">>, <<"A", "1">>}

AllPhoneInputs ==
    ValidPhones \cup {TooShortPhone, TooLongPhone, NonDigitPhone}

NextPhones ==
    \/ \E name \in LetterNameInputs, phone \in AllPhoneInputs :
           add_phone(name, phone)
    \/ \E name \in LetterNameInputs, phone \in AllPhoneInputs,
             new_phone \in AllPhoneInputs : edit_phone(name, phone, new_phone)
    \/ \E name \in LetterNameInputs : show_phones(name)
    \/ show_phones_all_contacts

SpecPhones == Init /\ [][NextPhones]_vars

\* ------------------------------------------------------------------------
\* The birthday operations alone, on names of letters, birth years of four
\* digits, and the days around the end of February and of December of a
\* leap and a common year
\* ------------------------------------------------------------------------

Years == {2024, 2025}

BoundaryDays ==
    {dt \in [y : Years, m : {1, 2, 3, 12}, d : 1..31] :
        /\ IsCalendarDate(dt.y, dt.m, dt.d)
        /\ \/ dt.m \in {2, 12} /\ dt.d >= 21
           \/ dt.m \in {1, 3} /\ dt.d <= 3}

BoundaryBirthdayInputs ==
    {<<"3", "1", ".", "1", "2", ".", "2", "0", "2", "4">>,
     <<"0", "2", ".", "0", "1", ".", "1", "9", "9", "0">>,
     <<"2", "9", ".", "0", "2", ".", "2", "0", "2", "4">>,
     <<"1", ".", "1", ".", "2", "0", "2", "4">>,
     <<"3", "1", ".", "0", "2", ".", "2", "0", "2", "4">>}

NextBirthdays ==
    \/ \E name \in LetterNameInputs, birthday \in BoundaryBirthdayInputs :
           add_birthday(name, birthday)
    \/ \E name \in LetterNameInputs : show_birthday(name)
    \/ \E today \in BoundaryDays : show_birthdays_next_week(today)

SpecBirthdays == Init /\ [][NextBirthdays]_vars

\* ------------------------------------------------------------------------
\* Properties
\* ------------------------------------------------------------------------

\* The formats as the specification words them.
IsLetter(c) == (ord("A") <= ord(c) /\ ord(c) <= ord("Z"))
               \/ (ord("a") <= ord(c) /\ ord(c) <= ord("z"))

IsAlphabeticName(n) ==
    /\ Len(n) \in 2..32
    /\ \A i \in 1..Len(n) : IsLetter(n[i])

IsTenDigits(p) == Len(p) = 10 /\ AllDigits(p)

IsDdMmYyyy(b) ==
    /\ Len(b) = 10
    /\ b[3] = "." /\ b[6] = "."
    /\ AllDigits(SubSeq(b, 1, 2)) /\ AllDigits(SubSeq(b, 4, 5))
    /\ AllDigits(SubSeq(b, 7, 10))
    /\ IsCalendarDate(NumVal(SubSeq(b, 7, 10)), NumVal(SubSeq(b, 4, 5)),
                      NumVal(SubSeq(b, 1, 2)))

\* The last call passed validation.
Validated(r) == r.exc = "None" \/ r.args # NoArgs

OwnsIn(tbl, n, p) == CopiesIn(PhoneRow(n, p), tbl) > 0

PhonesOf(tbl, n) == BagWhere(tbl, LAMBDA r : r.contact_name = n)

BirthdaysOf(tbl, n) == BagWhere(tbl, LAMBDA r : r.contact_name = n)

AbsentMessages ==
    {"Contact {name} is absent in address book and can not be edited.",
     "Phone {phone} is absent in contact {name} and can not be edited."}

InputValidationMessages ==
    {"Name can consist of letters A-z only.",
     "Phone must consist of 10 digits, example 0971122333",
     "Input date must be in format dd.mm.yyyy, example: 31.12.2024"}

\* Month and day of a stored yyyy-mm-dd text.
StoredMonth(text) == NumVal(Split(text, "-")[2])
StoredDay(text) == NumVal(Split(text, "-")[3])

DateLeq(a, b) ==
    \/ a.y < b.y
    \/ a.y = b.y /\ a.m < b.m
    \/ a.y = b.y /\ a.m = b.m /\ a.d <= b.d

\* C1: in every reachable state every row of phones and every row of
\* birthdays names a contact that is in contacts.
C1_ReferentialIntegrity ==
    /\ \A r \in DOMAIN phones : r.contact_name \in contacts
    /\ \A r \in DOMAIN birthdays : r.contact_name \in contacts

C1_Witness ==
    /\ BagCardinality(phones) > 0
    /\ BagCardinality(birthdays) > 0
    /\ ret.op = "edit_phone" /\ ret.msg = "Phone: updated."

\* C2: addBirthday, addPhone and editPhone called with a malformed argument
\* (a name that is not 2 to 32 letters, a phone that is not 10 digits, a
\* birthday that is not a dd.mm.yyyy date) raise a validation error and leave
\* contacts, phones and birthdays as they were.
C2_MalformedRaisesAndLeavesStore ==
    [][/\ ret'.op = "add_birthday" =>
              \A n \in NameInputs, b \in BirthdayInputs :
                  (~IsAlphabeticName(n) \/ ~IsDdMmYyyy(b)) /\ add_birthday(n, b)
                      => ret'.exc = "ValueError" /\ store' = store
       /\ ret'.op = "add_phone" =>
              \A n \in NameInputs, p \in PhoneInputs :
                  (~IsAlphabeticName(n) \/ ~IsTenDigits(p)) /\ add_phone(n, p)
                      => ret'.exc = "ValueError" /\ store' = store
       /\ ret'.op = "edit_phone" =>
              \A n \in NameInputs, p \in PhoneInputs, p2 \in PhoneInputs :
                  (~IsAlphabeticName(n) \/ ~IsTenDigits(p) \/ ~IsTenDigits(p2))
                      /\ edit_phone(n, p, p2)
                      => ret'.exc = "ValueError" /\ store' = store]_vars

\* C3: a call whose arguments all pass validation never raises, and a
\* mutating call that returns a not-found message changes nothing.
C3_ValidCallNeverRaises ==
    [][Validated(ret') =>
           /\ ret'.exc = "None"
           /\ ret'.msg \in AbsentMessages => store' = store]_vars

\* C4: after addPhone(n, p) with a valid name and phone the phones table
\* holds exactly one row (n, p) and showPhones(n) lists p exactly once; when
\* the row was already there the call leaves the store as it was.
C4_AddPhoneIdempotent ==
    [][ret'.op = "add_phone" /\ Validated(ret') =>
           LET n == ret'.args.name
               p == ret'.args.phone
               shown == show_phones_ret(contacts', phones', n)
           IN /\ CopiesIn(PhoneRow(n, p), phones') = 1
              /\ shown.exc = "None" /\ shown.msg = "Contact phones: "
              /\ CopiesIn(Line(n, p), shown.lines) = 1
              /\ (OwnsIn(phones, n, p) => store' = store)]_vars

\* The state after addPhone(n, p) was called on a store that held (n, p).
C4_Witness ==
    /\ ret.op = "add_phone" /\ ret.exc = "None"
    /\ BagCardinality(PhonesOf(phones, ret.args.name)) = NumPhones
    /\ BagCardinality(birthdays) > 0

\* C5: editPhone(n, p, p2) with valid arguments, when contact n does not
\* exist or does not own p, returns a not-found message and leaves contacts,
\* phones and birthdays unchanged.
C5_EditAbsentChangesNothing ==
    [][/\ ret'.op = "edit_phone" /\ Validated(ret')
       /\ \/ ret'.args.name \notin contacts
          \/ ~OwnsIn(phones, ret'.args.name, ret'.args.phone)
       => /\ ret'.exc = "None"
          /\ ret'.msg \in AbsentMessages
          /\ store' = store]_vars

\* editPhone on a contact that has phones, but not the one to edit.
C5_Witness ==
    /\ ret.op = "edit_phone"
    /\ ret.msg = "Phone {phone} is absent in contact {name} and can not be edited."
    /\ ret.args.name \in contacts
    /\ BagCardinality(PhonesOf(phones, ret.args.name)) > 0
    /\ ~OwnsIn(phones, ret.args.name, ret.args.phone)
    /\ ~OwnsIn(phones, ret.args.name, ret.args.new_phone)

\* C6: after addBirthday(n, b) with a valid name and a valid dd.mm.yyyy date
\* the store holds exactly one birthday row for n and showBirthday(n) returns
\* the contact line with b.
C6_BirthdayRoundTrip ==
    [][/\ ret'.op = "add_birthday" /\ Validated(ret')
       /\ IsDdMmYyyy(ret'.args.birthday)
       => LET n == ret'.args.name
              shown == show_birthday_ret(contacts', birthdays', n)
          IN /\ BagCardinality(BirthdaysOf(birthdays', n)) = 1
             /\ shown.exc = "None"
             /\ shown.msg = "Contact: {name}, Birthday: {birthday}"
             /\ shown.lines = SetToBag({Line(n, ret'.args.birthday)})]_vars

\* C7: showBirthdaysNextWeek on an empty store returns the no-birthdays
\* message, and on a store of one contact whose birthday's month and day are
\* those of the day 3 days after today it reports that contact with that
\* month and day.
C7_BirthdayInThreeDaysReported ==
    ret.op = "show_birthdays_next_week" =>
        /\ BagCardinality(birthdays) = 0 =>
               ret.exc = "None" /\ ret.msg = "There are no birthdays next week."
        /\ \A r \in DOMAIN birthdays :
               LET due == AddDays(ret.args.today, 3) IN
               /\ BagCardinality(birthdays) = 1
               /\ StoredMonth(r.birthday) = due.m
               /\ StoredDay(r.birthday) = due.d
               => /\ ret.exc = "None"
                  /\ \E l \in DOMAIN ret.lines :
                         /\ l.contact_name = r.contact_name
                         /\ SubSeq(l.value, 1, 5) =
                                ZeroPad(Decimal(due.d), 2) \o <<".">>
                                    \o ZeroPad(Decimal(due.m), 2)

\* C8: showBirthdaysNextWeek reports exactly the contacts whose birthday,
\* its year replaced by the current year, is a date d with
\* today <= d <= today + 7 days.
C8_ReportsExactlyTheWindow ==
    ret.op = "show_birthdays_next_week" =>
        /\ ret.exc = "None"
        /\ {l.contact_name : l \in DOMAIN ret.lines} =
               {r.contact_name : r \in
                   {x \in DOMAIN birthdays :
                       LET m == StoredMonth(x.birthday)
                           d == StoredDay(x.birthday)
                           occ == [y |-> ret.args.today.y, m |-> m, d |-> d]
                       IN /\ IsCalendarDate(ret.args.today.y, m, d)
                          /\ DateLeq(ret.args.today, occ)
                          /\ DateLeq(occ, AddDays(ret.args.today, 7))}}

\* C9: every name in contacts is 2 to 32 characters, each a letter A-Z or
\* a-z.
C9_NamesAlphabetic == \A n \in contacts : IsAlphabeticName(n)

\* C10: editPhone(n, p, p2) with valid arguments and p # p2, when n owns p,
\* returns the updated confirmation; afterwards n owns p2 and not p, n has as
\* many phone rows as before, and contacts, birthdays and the phone rows of
\* the other contacts are unchanged.
C10_EditUpdatesInPlace ==
    [][/\ ret'.op = "edit_phone" /\ Validated(ret')
       /\ ret'.args.phone # ret'.args.new_phone
       /\ OwnsIn(phones, ret'.args.name, ret'.args.phone)
       => LET n == ret'.args.name
              p == ret'.args.phone
              p2 == ret'.args.new_phone
          IN /\ ret'.exc = "None" /\ ret'.msg = "Phone: updated."
             /\ OwnsIn(phones', n, p2) /\ ~OwnsIn(phones', n, p)
             /\ BagCardinality(PhonesOf(phones', n))
                    = BagCardinality(PhonesOf(phones, n))
             /\ contacts' = contacts /\ birthdays' = birthdays
             /\ \A o \in contacts :
                    o # n => PhonesOf(phones', o) = PhonesOf(phones, o)]_vars

====
